---- MODULE Spec2Model ----
(***************************************************************************)
(* State-machine model of darktable's "filters for collections" panel      *)
(* (src/libs/filtering.c): the rule list kept in the configuration, the    *)
(* in-memory array of rule structs mirroring it, the params block used by  *)
(* presets, the rule history, and the handlers that change them.           *)
(*                                                                         *)
(* Representation.                                                         *)
(*   - The configuration is the function conf from key names to values;    *)
(*     DOMAIN conf is the set of keys that exist.                          *)
(*   - A C string pointer is a sequence of at most one string: NULL is     *)
(*     <<>>, a pointer to the string s is <<s>>.                           *)
(*   - A handler is an operator from a machine record                      *)
(*     [conf, d, coll, trace] to the machine record after it; trace is the *)
(*     sequence of configuration writes and outside calls it made.         *)
(***************************************************************************)
EXTENDS Integers, Sequences, FiniteSets, TLC

VARIABLES
  conf,   \* the configuration table (dt_conf)
  d,      \* dt_lib_filtering_t: nb_rules, rule[], params, sort, ...
  coll,   \* darktable.collection: query flags and sort
  trace,  \* what the last handler did, in order
  op,     \* the last handler and its arguments
  ret,    \* the last handler's return value
  steps   \* number of handlers run since gui_init

vars == <<conf, d, coll, trace, op, ret, steps>>

-----------------------------------------------------------------------------
(* Program constants *)

MAX_RULES == 10

PARAM_STRING_SIZE == 256

\* enum dt_collection_properties_t (common/collection.h)
DT_COLLECTION_PROP_FILENAME == 2

DT_COLLECTION_PROP_RATING == 21

DT_COLLECTION_PROP_TAG == 20

\* enum dt_lib_collect_mode_t (libs/collect.h)
DT_LIB_COLLECT_MODE_AND == 0

INT_MAX == 2147483647

INT_MIN == (0 - INT_MAX) - 1

(* Bounds of the model *)

\* handlers run after gui_init
MaxSteps == 2

\* largest value of the rules field of a params block handed to set_params
MaxParamRules == 11

\* the value of the history_max preference
HistoryMax == 3

\* largest number of images that have the same file name
MaxCount == 2

\* largest number of images that have the same rating
MaxRated == 1

\* rule edits and history picks made on an empty history
MaxEdits == 4

-----------------------------------------------------------------------------
(* C helpers *)

NULL == <<>>

MAX(a, b) == IF a > b THEN a ELSE b

CLAMP(x, low, high) == IF x > high THEN high ELSE IF x < low THEN low ELSE x

\* assignment to a 16 bit wide unsigned bit-field
Bits16(v) == v % 65536

\* g_strlcpy / snprintf("%s") into a buffer of size bytes: at most size-1 chars
g_strlcpy(src, size) == IF Len(src) < size THEN src ELSE SubSeq(src, 1, size - 1)

\* a function held as the table of its values
Stored(f) == <<>> @@ f

\* C's sequencing: first is evaluated before rest, whose value is the result
Then(first, rest) == <<first, rest>>[2]

\* g_strcmp0(a, b) == 0 on string pointers, NULL equal only to NULL
StrEq(a, b) == a = b

-----------------------------------------------------------------------------
(* The configuration (control/conf.h) *)

PREFIX == "plugins/lighttable/filtering/"

\* snprintf(confname, ..., "plugins/lighttable/filtering/<name>%1d", i)
Key(name, i) == PREFIX \o name \o ToString(i)

KeyNumRules == PREFIX \o "num_rules"

KeyHistoryMax == PREFIX \o "history_max"

KeyOrder == PREFIX \o "order"

\* an absent integer key reads as 0
dt_conf_get_int(c, key) == IF key \in DOMAIN c THEN c[key] ELSE 0

\* an absent string key reads as NULL
dt_conf_get_string_const(c, key) == IF key \in DOMAIN c THEN <<c[key]>> ELSE NULL

dt_conf_get_string(c, key) == dt_conf_get_string_const(c, key)

\* c with key set to v
ConfPut(c, key, v) == (key :> v) @@ c

\* c without key
ConfDel(c, key) == Stored([k \in DOMAIN c \ {key} |-> c[k]])

\* a machine record with one more event in its trace
Did(s, kind, what) == [s EXCEPT !.trace = Append(@, <<kind, what>>)]

Call(s, what) == Did(s, "call", what)

\* the last handler ended the program
Aborted(tr) == Len(tr) > 0 /\ tr[Len(tr)][1] = "abort"

dt_conf_set_int(s, key, v) ==
  Did([s EXCEPT !.conf = ConfPut(@, key, v)], "conf_set", key)

\* storing NULL leaves a key that reads as NULL again
dt_conf_set_string(s, key, str) ==
  Did([s EXCEPT !.conf = IF str = NULL THEN ConfDel(@, key) ELSE ConfPut(@, key, str[1])],
      "conf_set", key)

-----------------------------------------------------------------------------
(* Serialisation of the rule-set (common/collection.c) *)

RECURSIVE SerializeRules(_, _, _)
SerializeRules(c, k, num_rules) ==
  IF k >= num_rules THEN ""
  ELSE LET str == dt_conf_get_string_const(c, Key("string", k))
       IN  ToString(dt_conf_get_int(c, Key("mode", k))) \o ":"
           \o ToString(dt_conf_get_int(c, Key("item", k))) \o ":"
           \o ToString(dt_conf_get_int(c, Key("off", k))) \o ":"
           \o (IF str # NULL /\ str[1] # "" THEN str[1] ELSE "%") \o "$"
           \o SerializeRules(c, k + 1, num_rules)

\* dt_collection_serialize(buf, bufsize, TRUE)
dt_collection_serialize(c) ==
  LET num_rules == dt_conf_get_int(c, KeyNumRules)
  IN  ToString(num_rules) \o ":" \o SerializeRules(c, 0, num_rules)

-----------------------------------------------------------------------------
(* History of rule-sets *)

RECURSIVE HistoryDedup(_, _, _, _, _)
\* an entry equal to buf left where it is
HistoryDedupEntryKept(s, buf, i, move, nbmax, string) ==
  HistoryDedup(s, buf, i + 1, move, nbmax)

\* entry i holds string: the body of the loop that removes the entries equal to buf
HistoryDedupEntry(s, buf, i, move, nbmax, string) ==
  IF StrEq(string, <<buf>>)
  THEN HistoryDedup(dt_conf_set_string(s, Key("history", i), <<"">>),
                    buf, i + 1, move + 1, nbmax)
  ELSE IF move > 0
  THEN HistoryDedup(dt_conf_set_string(dt_conf_set_string(s, Key("history", i), <<"">>),
                                       Key("history", i - move), string),
                    buf, i + 1, move, nbmax)
  ELSE HistoryDedup(s, buf, i + 1, move, nbmax)

HistoryDedup(s, buf, i, move, nbmax) ==
  Then(s, IF i >= nbmax THEN s
          ELSE HistoryDedupEntry(s, buf, i, move, nbmax,
                                 dt_conf_get_string(s.conf, Key("history", i))))

\* the entries left where they are
HistoryShiftNone(s, i) == s

\* move all history entries +1 (and delete the last one)
RECURSIVE HistoryShift(_, _)
HistoryShift(s, i) ==
  Then(s, IF i < 0 THEN s
          ELSE HistoryShift(dt_conf_set_string(s, Key("history", i + 1),
                                               dt_conf_get_string(s.conf, Key("history", i))),
                            i - 1))

\* the rules saved without the comparison to the last saved history
HistorySaveBufAlways(s, buf) ==
  dt_conf_set_string(
    HistoryShift(HistoryDedup(s, buf, 1, 0, dt_conf_get_int(s.conf, KeyHistoryMax)),
                 dt_conf_get_int(s.conf, KeyHistoryMax) - 2),
    Key("history", 0), <<buf>>)

\* the rules saved in the last slot instead of the first
HistorySaveBufLast(s, buf) ==
  IF StrEq(dt_conf_get_string(s.conf, Key("history", 0)), <<buf>>) THEN s
  ELSE dt_conf_set_string(
         HistoryShift(HistoryDedup(s, buf, 1, 0, dt_conf_get_int(s.conf, KeyHistoryMax)),
                      dt_conf_get_int(s.conf, KeyHistoryMax) - 2),
         Key("history", dt_conf_get_int(s.conf, KeyHistoryMax) - 1), <<buf>>)

\* _history_save once buf holds the serialised rules
HistorySaveBuf(s, buf) ==
  LET nbmax == dt_conf_get_int(s.conf, KeyHistoryMax)
  IN  IF StrEq(dt_conf_get_string(s.conf, Key("history", 0)), <<buf>>) THEN s
      ELSE dt_conf_set_string(HistoryShift(HistoryDedup(s, buf, 1, 0, nbmax), nbmax - 2),
                              Key("history", 0), <<buf>>)

\* the history save pushing the rule-set to the collection itself
HistorySaveQuery(s) ==
  Call(HistorySaveBuf(s, dt_collection_serialize(s.conf)),
       "dt_collection_update_query(NEW_QUERY)")

_history_save(s) == HistorySaveBuf(s, dt_collection_serialize(s.conf))

-----------------------------------------------------------------------------
(* The params block (dt_lib_filtering_params_t) *)

ZeroRule == [item |-> 0, mode |-> 0, off |-> 0, string |-> ""]

\* memset(p, 0, sizeof(dt_lib_filtering_params_t))
ZeroParams == [rules |-> 0, rule |-> Stored([i \in 0 .. (MAX_RULES - 1) |-> ZeroRule])]

\* a store to element i of a C array: a store outside the array shows as an
\* element outside 0 .. MAX_RULES-1
ArrPut(arr, i, v) == (i :> v) @@ arr

\* the values x - 1 may take in int arithmetic: at INT_MIN the subtraction overflows,
\* which is undefined: the build either wraps to INT_MAX or compares as if the
\* difference were exact, that is as a number below every int (INT_MIN stands for it)
IntDec(x) == IF x = INT_MIN THEN {INT_MAX, INT_MIN} ELSE {x - 1}

\* active clamped to MAX_RULES instead of MAX_RULES - 1
ParamsActivePast(a) == CLAMP(a, 0, MAX_RULES)

\* const int active = CLAMP(_a, 0, (MAX_RULES - 1))
ParamsActive(a) == CLAMP(a, 0, MAX_RULES - 1)

\* the string field of rule i of the params block after reading its key
ParamsString(old, string) ==
  IF string # NULL THEN g_strlcpy(string[1], PARAM_STRING_SIZE) ELSE old

\* rule i of the params block p as read from the configuration c
ParamsRuleFromConf(p, c, i) ==
  [item |-> Bits16(dt_conf_get_int(c, Key("item", i))),
   mode |-> Bits16(dt_conf_get_int(c, Key("mode", i))),
   off |-> Bits16(dt_conf_get_int(c, Key("off", i))),
   string |-> ParamsString((IF i \in DOMAIN p.rule THEN p.rule[i] ELSE ZeroRule).string,
                           dt_conf_get_string_const(c, Key("string", i)))]

RECURSIVE UpdateParamsLoop(_, _, _, _)
UpdateParamsLoop(p, c, i, active) ==
  Then(p, IF i > active THEN p
          ELSE UpdateParamsLoop([p EXCEPT !.rule = ArrPut(@, i, ParamsRuleFromConf(p, c, i))],
                                c, i + 1, active))

\* a is the value of _a, one of IntDec(num_rules)
_filters_update_params(s, a) ==
  [s EXCEPT !.d.params = [UpdateParamsLoop(ZeroParams, s.conf, 0, ParamsActive(a))
                            EXCEPT !.rules = ParamsActive(a) + 1]]

-----------------------------------------------------------------------------
(* Rule edits *)

\* the history saved before the rule's keys are written
ConfUpdateRuleHistoryFirst(s, i) ==
  dt_conf_set_int(
    dt_conf_set_int(
      dt_conf_set_int(
        dt_conf_set_string(_history_save(s), Key("string", s.d.rule[i].num),
                           <<s.d.rule[i].raw_text>>),
        Key("item", s.d.rule[i].num), s.d.rule[i].prop),
      Key("mode", s.d.rule[i].num), MAX(0, s.d.rule[i].w_operator)),
    Key("off", s.d.rule[i].num), IF s.d.rule[i].w_off THEN 0 ELSE 1)

\* the configuration writes of _conf_update_rule, then the history
_conf_update_rule(s, i) ==
  LET rule == s.d.rule[i]
      mode == MAX(0, rule.w_operator)
      off == IF rule.w_off THEN 0 ELSE 1
      s1 == dt_conf_set_string(s, Key("string", rule.num), <<rule.raw_text>>)
      s2 == dt_conf_set_int(s1, Key("item", rule.num), rule.prop)
      s3 == dt_conf_set_int(s2, Key("mode", rule.num), mode)
      s4 == dt_conf_set_int(s3, Key("off", rule.num), off)
  IN  _history_save(s4)

\* if(rule->manual_widget_set) return;
RuleChangedIgnored(rule) == rule.manual_widget_set # 0

_event_rule_changed(s, i) ==
  IF RuleChangedIgnored(s.d.rule[i]) THEN s
  ELSE Call(Call(Call(_conf_update_rule(s, i),
                      "dt_control_signal_block_by_func"),
                 "dt_collection_update_query(NEW_QUERY)"),
            "dt_control_signal_unblock_by_func")

\* snprintf("%s") of a NULL pointer prints (null) with glibc
PrintfS(text) == IF text = NULL THEN "(null)" ELSE text[1]

_rule_set_raw_text(s, i, text, signal) ==
  LET s1 == [s EXCEPT !.d.rule[i].raw_text = g_strlcpy(PrintfS(text), PARAM_STRING_SIZE)]
  IN  IF signal THEN _event_rule_changed(s1, i) ELSE s1

-----------------------------------------------------------------------------
(* Rule widgets *)

\* calloc'ed rule struct number i
RuleInit(i) ==
  [num |-> i, prop |-> 0, w_main |-> FALSE, w_operator |-> -1, w_off |-> FALSE,
   raw_text |-> "", w_special_box |-> FALSE, w_specific |-> FALSE,
   manual_widget_set |-> 0]

\* the special widgets are destroyed and recreated for the rule's property
_widget_init_special(s, i, text) ==
  [s EXCEPT !.d.rule[i].w_special_box = TRUE, !.d.rule[i].w_specific = TRUE]

\* gtk_combo_box_set_active on the three-entry operator combobox
ComboActive(mode) == IF mode \in 0 .. 2 THEN mode ELSE -1

\* setting a widget to a new value emits its signal, which runs _event_rule_changed
SetOperator(s, i, mode) ==
  LET s1 == [s EXCEPT !.d.rule[i].w_operator = ComboActive(mode)]
  IN  IF s.d.rule[i].w_operator # ComboActive(mode) THEN _event_rule_changed(s1, i) ELSE s1

SetOff(s, i, active) ==
  LET s1 == [s EXCEPT !.d.rule[i].w_off = active]
  IN  IF s.d.rule[i].w_off # active THEN _event_rule_changed(s1, i) ELSE s1

\* rule->manual_widget_set--
WidgetInitEnd(s, i) == [s EXCEPT !.d.rule[i].manual_widget_set = @ - 1]

\* if(newmain || newprop || newraw) _widget_init_special(rule, text, self)
WidgetInitSpecial(s, i, text, needed) ==
  WidgetInitEnd(IF needed THEN _widget_init_special(s, i, text) ELSE s, i)

\* the raw text is compared with text, then set to it
WidgetInitText(s, i, text, newmain, newprop) ==
  WidgetInitSpecial(_rule_set_raw_text(s, i, text, FALSE), i, text,
                    newmain \/ newprop \/ ~StrEq(text, <<s.d.rule[i].raw_text>>))

\* the main box is created when the rule has none; the operator combobox and the
\* on-off button are new then
WidgetInitMain(s, i, prop) ==
  [s EXCEPT !.d.rule[i].manual_widget_set = @ + 1,
            !.d.rule[i].prop = prop,
            !.d.rule[i].w_main = TRUE,
            !.d.rule[i].w_operator = IF ~s.d.rule[i].w_main THEN -1 ELSE @,
            !.d.rule[i].w_off = IF ~s.d.rule[i].w_main THEN FALSE ELSE @]

_widget_init(s, i, prop, text, mode, off) ==
  WidgetInitText(SetOff(SetOperator(WidgetInitMain(s, i, prop), i, mode), i, off = 0),
                 i, text, ~s.d.rule[i].w_main, prop # s.d.rule[i].prop)

\* the index of the last rule taken for the number of rules
GuiNbRulesLast(c) == CLAMP(dt_conf_get_int(c, KeyNumRules) - 1, -1, MAX_RULES - 1)

\* d->nb_rules = CLAMP(dt_conf_get_int(".../num_rules"), 0, MAX_RULES)
GuiNbRules(c) == CLAMP(dt_conf_get_int(c, KeyNumRules), 0, MAX_RULES)

\* create or update defined rules
RECURSIVE GuiUpdateRules(_, _)
GuiUpdateRules(s, i) ==
  Then(s, IF i >= s.d.nb_rules THEN s
          ELSE GuiUpdateRules(_widget_init(s, i,
                                           dt_conf_get_int(s.conf, Key("item", i)),
                                           dt_conf_get_string_const(s.conf, Key("string", i)),
                                           dt_conf_get_int(s.conf, Key("mode", i)),
                                           dt_conf_get_int(s.conf, Key("off", i))),
                              i + 1))

\* remove all remaining rules
GuiRemoveRule(rule) ==
  [rule EXCEPT !.prop = 0, !.w_main = FALSE,
               !.w_special_box = IF rule.w_main THEN FALSE ELSE @]

GuiRemoveRules(s) ==
  [s EXCEPT !.d.rule =
     Stored([i \in DOMAIN s.d.rule |->
               IF i >= s.d.nb_rules /\ i < MAX_RULES THEN GuiRemoveRule(s.d.rule[i])
               ELSE s.d.rule[i]])]

_filters_gui_update(s) ==
  GuiRemoveRules(GuiUpdateRules([s EXCEPT !.d.nb_rules = GuiNbRules(s.conf)], 0))

-----------------------------------------------------------------------------
(* Parsing a history line (common/collection.c) *)

CharAt(buf, pos) == SubSeq(buf, pos, pos)

DIGITS == "0123456789"

IsDigit(ch) == \E k \in 1 .. 10 : CharAt(DIGITS, k) = ch

DigitVal(ch) == (CHOOSE k \in 1 .. 10 : CharAt(DIGITS, k) = ch) - 1

RECURSIVE ScanDigits(_, _, _)
ScanDigits(buf, pos, acc) ==
  IF pos <= Len(buf) /\ IsDigit(CharAt(buf, pos))
  THEN ScanDigits(buf, pos + 1, acc * 10 + DigitVal(CharAt(buf, pos)))
  ELSE [val |-> acc, pos |-> pos]

IsMinus(buf, pos) == pos <= Len(buf) /\ CharAt(buf, pos) = "-"

\* r is what ScanDigits read from start, the position after the optional sign
ScanIntOf(r, neg, start, pos) ==
  IF r.pos = start THEN [ok |-> FALSE, val |-> 0, pos |-> pos]
  ELSE [ok |-> TRUE, val |-> IF neg THEN 0 - r.val ELSE r.val, pos |-> r.pos]

\* sscanf("%d"): an optional sign and at least one digit
ScanInt(buf, pos) ==
  LET start == IF IsMinus(buf, pos) THEN pos + 1 ELSE pos
  IN  ScanIntOf(ScanDigits(buf, start, 0), IsMinus(buf, pos), start, pos)

\* the first position from pos on that holds ch, or the end of the string
RECURSIVE SkipTo(_, _, _)
SkipTo(buf, pos, ch) ==
  IF pos > Len(buf) \/ CharAt(buf, pos) = ch THEN pos ELSE SkipTo(buf, pos + 1, ch)

\* r is the integer read at pos
ScanFieldOf(r, buf, pos) ==
  IF r.ok /\ r.pos <= Len(buf) /\ CharAt(buf, r.pos) = ":"
  THEN [ok |-> TRUE, val |-> r.val, pos |-> r.pos + 1]
  ELSE [ok |-> FALSE, val |-> 0, pos |-> pos]

\* sscanf("%d:"): an integer followed by a colon
ScanField(buf, pos) == ScanFieldOf(ScanInt(buf, pos), buf, pos)

\* the fields m, it and o were read and the string runs up to stop
ScanRuleOf(buf, m, it, o, stop) ==
  IF m.ok /\ it.ok /\ o.ok /\ stop > o.pos
  THEN [n |-> 4, mode |-> m.val, item |-> it.val, off |-> o.val,
        str |-> SubSeq(buf, o.pos, IF stop - o.pos > 399 THEN o.pos + 398 ELSE stop - 1)]
  ELSE [n |-> 0, mode |-> 0, item |-> 0, off |-> 0, str |-> ""]

ScanRuleString(buf, m, it, o) == ScanRuleOf(buf, m, it, o, SkipTo(buf, o.pos, "$"))

ScanRuleOff(buf, m, it) == ScanRuleString(buf, m, it, ScanField(buf, it.pos))

ScanRuleItem(buf, m) == ScanRuleOff(buf, m, ScanField(buf, m.pos))

\* sscanf(buf, "%d:%d:%d:%399[^$]", &mode, &item, &off, str): n is 4 when all
\* four fields were read
ScanRule(buf, pos) == ScanRuleItem(buf, ScanField(buf, pos))

\* the position after the next $
AfterRule(buf, stop) == IF stop <= Len(buf) THEN stop + 1 ELSE stop

\* the configuration writes for rule k read as r
DeserializeStore(s, k, r) ==
  dt_conf_set_string(
    dt_conf_set_int(
      dt_conf_set_int(
        dt_conf_set_int(s, Key("mode", k), r.mode),
        Key("item", k), r.item),
      Key("off", k), r.off),
    Key("string", k), <<r.str>>)

RECURSIVE DeserializeRules(_, _, _, _, _)
\* rule k read as r: stored, or the count cut to k when it could not be read
DeserializeRule(s, buf, pos, k, num_rules, r) ==
  IF r.n = 4
  THEN DeserializeRules(DeserializeStore(s, k, r), buf, AfterRule(buf, SkipTo(buf, pos, "$")),
                        k + 1, num_rules)
  ELSE dt_conf_set_int(s, KeyNumRules, k)

DeserializeRules(s, buf, pos, k, num_rules) ==
  Then(s, IF k >= num_rules THEN s
          ELSE DeserializeRule(s, buf, pos, k, num_rules, ScanRule(buf, pos)))

\* the count read at the start of the line
ScanCount(n) == IF n.ok THEN n.val ELSE 0

DeserializeFrom(s, buf, num_rules) ==
  Call(DeserializeRules(dt_conf_set_int(s, KeyNumRules, num_rules), buf,
                        AfterRule(buf, SkipTo(buf, 1, ":")), 0, num_rules),
       "dt_collection_update_query(NEW_QUERY)")

\* dt_collection_deserialize(buf, TRUE)
dt_collection_deserialize(s, buf) == DeserializeFrom(s, buf, ScanCount(ScanInt(buf, 1)))

-----------------------------------------------------------------------------
(* Handlers *)

\* get_params: the block returned is a copy of d->params
get_params(s, a) == _filters_update_params(s, a)

\* p->rule[i]: an index past the array reads the memory that follows the block
ParamsRule(p, oob, i) == IF i < MAX_RULES THEN p.rule[i] ELSE oob[i]

\* only the first rule looked at
ResetViewFilterFirst(p, oob) ==
  p.rules > 0 /\ ParamsRule(p, oob, 0).item = DT_COLLECTION_PROP_RATING

\* if(p->rule[i].item == DT_COLLECTION_PROP_RATING) reset_view_filter = TRUE
ResetViewFilter(p, oob) ==
  \E i \in 0 .. (p.rules - 1) : ParamsRule(p, oob, i).item = DT_COLLECTION_PROP_RATING

\* the configuration writes for rule i of the block, r
SetParamsRule(s, i, r) ==
  dt_conf_set_string(
    dt_conf_set_int(
      dt_conf_set_int(
        dt_conf_set_int(s, Key("item", i), r.item),
        Key("mode", i), r.mode),
      Key("off", i), r.off),
    Key("string", i), <<r.string>>)

RECURSIVE SetParamsLoop(_, _, _, _)
SetParamsLoop(s, p, oob, i) ==
  Then(s, IF i >= p.rules THEN s
          ELSE SetParamsLoop(SetParamsRule(s, i, ParamsRule(p, oob, i)), p, oob, i + 1))

\* if(reset_view_filter) dt_view_filter_reset(darktable.view_manager, FALSE)
SetParamsReset(s, reset_view_filter) ==
  IF reset_view_filter THEN Call(s, "dt_view_filter_reset") ELSE s

\* dt_conf_set_int(".../num_rules", d->nb_rules)
StoreNumRules(s, num_rules) == dt_conf_set_int(s, KeyNumRules, num_rules)

\* a is the value of _a in _filters_update_params, one of IntDec(p->rules)
set_params(s, p, oob, a) ==
  Call(_filters_gui_update(
         _filters_update_params(
           StoreNumRules(SetParamsReset(SetParamsLoop(s, p, oob, 0), ResetViewFilter(p, oob)),
                         p.rules),
           a)),
       "dt_collection_update_query(NEW_QUERY)")

\* rule i takes the keys of rule i + 1, whose string key reads as string
CloseMove(s, i, string) ==
  IF string # NULL
  THEN dt_conf_set_string(
         dt_conf_set_int(
           dt_conf_set_int(
             dt_conf_set_int(s, Key("mode", i), dt_conf_get_int(s.conf, Key("mode", i + 1))),
             Key("item", i), dt_conf_get_int(s.conf, Key("item", i + 1))),
           Key("off", i), dt_conf_get_int(s.conf, Key("off", i + 1))),
         Key("string", i), string)
  ELSE s

\* move up all still active rules by one
RECURSIVE CloseShift(_, _)
CloseShift(s, i) ==
  Then(s, IF i >= MAX_RULES - 1 THEN s
          ELSE CloseShift(CloseMove(s, i, dt_conf_get_string(s.conf, Key("string", i + 1))),
                          i + 1))

\* the shift started one rule too late
CloseFirstNext(rule) == rule.num + 1

\* the rule index the shift starts from
CloseFirst(rule) == rule.num

\* d->nb_rules--
CloseCount(s) == [s EXCEPT !.d.nb_rules = @ - 1]

\* the count as d->nb_rules holds it is stored
StoreNbRules(s) == StoreNumRules(s, s.d.nb_rules)

_event_rule_close(s, k) ==
  IF s.d.rule[k].manual_widget_set # 0 THEN s
  ELSE IF s.d.nb_rules <= 0 THEN s
  ELSE Call(_filters_gui_update(CloseShift(StoreNbRules(CloseCount(s)),
                                           CloseFirst(s.d.rule[k]))),
            "dt_collection_update_query(NEW_QUERY)")

_event_rule_close_ret(s, k) ==
  IF s.d.rule[k].manual_widget_set # 0 THEN TRUE
  ELSE IF s.d.nb_rules <= 0 THEN FALSE
  ELSE TRUE

\* the limit compared with > instead of >=
AppendRefusedPast(nb_rules) == nb_rules > MAX_RULES

\* if(d->nb_rules >= MAX_RULES)
AppendRefused(nb_rules) == nb_rules >= MAX_RULES

\* an appended rule stored with the next mode
AppendModeNext == DT_LIB_COLLECT_MODE_AND + 1

\* the mode key of an appended rule
AppendMode == DT_LIB_COLLECT_MODE_AND

\* dt_conf_set_int(confname, dt_conf_get_int(confname) + 1)
ConfIncr(s, key) == dt_conf_set_int(s, key, dt_conf_get_int(s.conf, key) + 1)

\* the keys of the empty rule n for the property mode
AppendStore(s, n, mode) ==
  dt_conf_set_string(
    dt_conf_set_int(
      dt_conf_set_int(
        dt_conf_set_int(s, Key("item", n), mode),
        Key("mode", n), AppendMode),
      Key("off", n), 0),
    Key("string", n), <<"">>)

\* d->nb_rules++
AppendCount(s) == [s EXCEPT !.d.nb_rules = @ + 1]

_event_append_rule(s, mode) ==
  IF mode >= 0
  THEN IF AppendRefused(s.d.nb_rules)
       THEN Call(s, "dt_control_log(You can't have more than 10 rules)")
       ELSE Call(_filters_gui_update(
                   ConfIncr(StoreNbRules(AppendCount(AppendStore(s, s.d.nb_rules, mode))),
                            Key("nb_use_", mode))),
                 "dt_collection_update_query(NEW_QUERY)")
  ELSE s

\* sort | (descending ? DT_COLLECTION_ORDER_FLAG : 0)
DT_COLLECTION_ORDER_FLAG == 32768

\* when tag was/become the first rule, we need to handle the order
ChangeTypeOrder(s, num, oldprop, prop) ==
  IF num # 0 THEN s
  ELSE IF oldprop # DT_COLLECTION_PROP_TAG /\ prop = DT_COLLECTION_PROP_TAG
  THEN dt_conf_set_int(s, KeyOrder,
                       s.coll.sort
                       + (IF s.coll.descending THEN DT_COLLECTION_ORDER_FLAG ELSE 0))
  ELSE IF oldprop = DT_COLLECTION_PROP_TAG /\ prop # DT_COLLECTION_PROP_TAG
  THEN Call(Call([s EXCEPT !.coll.tagid = 0], "dt_collection_set_tag_id(0)"),
            "DT_SIGNAL_IMAGES_ORDER_CHANGE")
  ELSE s

\* rule->prop = mode
ChangeTypeProp(s, i, mode) == [s EXCEPT !.d.rule[i].prop = mode]

_event_rule_change_type(s, i, mode) ==
  IF mode = s.d.rule[i].prop THEN s
  ELSE Call(Call(Call(
         ChangeTypeOrder(
           _conf_update_rule(
             _rule_set_raw_text(
               _widget_init_special(
                 ConfIncr(ChangeTypeProp(s, i, mode), Key("nb_use_", mode)),
                 i, <<"">>),
               i, <<"">>, FALSE),
             i),
           s.d.rule[i].num, s.d.rule[i].prop, mode),
         "dt_control_signal_block_by_func"),
         "dt_collection_update_query(NEW_QUERY)"),
         "dt_control_signal_unblock_by_func")

\* _fallback_changed, _range_changed, ...: the user set the rule's value to text
ValueChanged(s, i, text) ==
  LET rule == s.d.rule[i]
  IN  IF rule.manual_widget_set # 0 THEN s
      ELSE IF ~rule.w_specific THEN s
      ELSE _rule_set_raw_text(s, i, <<text>>, TRUE)

_event_history_apply(s, hid) ==
  IF hid < 0 \/ hid >= dt_conf_get_int(s.conf, KeyHistoryMax) THEN s
  ELSE LET line == dt_conf_get_string_const(s.conf, Key("history", hid))
       IN  IF line # NULL /\ line[1] # ""
           THEN _filters_gui_update(dt_collection_deserialize(s, line[1]))
           ELSE s

\* gui_reset without the change of the query flags
gui_reset_flags_kept(s) ==
  Call(dt_conf_set_int(s, KeyNumRules, 0), "dt_collection_update_query(NEW_QUERY)")

gui_reset(s) ==
  LET s1 == dt_conf_set_int(s, KeyNumRules, 0)
      s2 == Call([s1 EXCEPT !.coll.query_flags = "COLLECTION_QUERY_FULL"],
                 "dt_collection_set_query_flags(COLLECTION_QUERY_FULL)")
  IN  Call(s2, "dt_collection_update_query(NEW_QUERY)")

\* what a use of a destroyed widget or of memory past the rule array may do
UndefinedOutcomes == {"returns", "aborts"}

\* the refresh of every rule, whatever the clause
WhereChangedAlways(where_ext, last) == TRUE

\* if(g_strcmp0(where_ext, d->last_where_ext))
WhereChanged(where_ext, last) == ~StrEq(where_ext, last)

\* rule[i] is used by _widget_update as a rule with live widgets
RuleDefined(s, i) ==
  /\ i < MAX_RULES
  /\ (s.d.rule[i].w_main \/ ~s.d.rule[i].w_specific)

\* _widget_update(&d->rule[i]): the update of the rule's special widgets runs under
\* manual_widget_set and leaves the rule as it was. rule[MAX_RULES] lies past the
\* array, and a slot without main widget whose w_specific was left from a removed
\* rule refers to destroyed widgets: their use is undefined
_widget_update(s, i, ub) ==
  IF RuleDefined(s, i) THEN Call(s, "_widget_update(" \o ToString(i) \o ")")
  ELSE IF ub = "aborts"
  THEN Did(Did(s, "undefined", "_widget_update(" \o ToString(i) \o ")"), "abort", "")
  ELSE Did(s, "undefined", "_widget_update(" \o ToString(i) \o ")")

\* for(int i = 0; i <= d->nb_rules; i++) _widget_update(&d->rule[i])
RECURSIVE UpdatedRefresh(_, _, _)
UpdatedRefresh(s, i, ub) ==
  Then(s, IF i > s.d.nb_rules \/ Aborted(s.trace) THEN s
          ELSE UpdatedRefresh(_widget_update(s, i, ub), i + 1, ub))

\* d->last_where_ext = g_strdup(where_ext)
UpdatedStore(s, where_ext) == [s EXCEPT !.d.last_where_ext = where_ext]

_dt_collection_updated(s, ub) ==
  IF WhereChanged(s.coll.where_ext, s.d.last_where_ext)
  THEN UpdatedRefresh(UpdatedStore(s, s.coll.where_ext), 0, ub)
  ELSE s

\* the values of the entries of the sort combobox, in the order ADD_SORT_ENTRY adds
\* them: DT_COLLECTION_SORT_FILENAME (0) to DT_COLLECTION_SORT_SHUFFLE (15)
SortEntries == <<0, 1, 2, 3, 4, 5, 6, 7, 8, 9, 10, 11, 12, 13, 14, 15>>

\* GPOINTER_TO_UINT(dt_bauhaus_combobox_get_data(d->sort->sort)): the value of the
\* active entry, 0 when none is active
SortData(pos) == IF pos + 1 \in DOMAIN SortEntries THEN SortEntries[pos + 1] ELSE 0

\* dt_bauhaus_combobox_set: the active entry, -1 .. number of entries - 1
SortActive(pos) == CLAMP(pos, -1, Len(SortEntries) - 1)

_sort_set_tag_order(s) ==
  IF s.coll.tagid # 0 THEN Call(s, "dt_tag_set_tag_order_by_id") ELSE s

\* if(update_filter) dt_view_filter_update_sort(darktable.view_manager, sort, reverse)
SortSyncFilter(s, update_filter) ==
  IF update_filter THEN Call(s, "dt_view_filter_update_sort") ELSE s

\* dt_collection_set_sort(darktable.collection, sort, reverse)
SortSetCollection(s) ==
  Call([s EXCEPT !.coll.sort = SortData(s.d.sort.sort),
                 !.coll.descending = s.d.sort.direction],
       "dt_collection_set_sort")

\* dt_collection_set_query_flags(darktable.collection, COLLECTION_QUERY_FULL)
SortSetFlags(s) ==
  Call([s EXCEPT !.coll.query_flags = "COLLECTION_QUERY_FULL"],
       "dt_collection_set_query_flags(COLLECTION_QUERY_FULL)")

_sort_update_query(s, update_filter) ==
  Call(SortSetFlags(_sort_set_tag_order(SortSetCollection(SortSyncFilter(s, update_filter)))),
       "dt_collection_update_query(RELOAD)")

\* the arrow is painted again
_sort_update_arrow(s) == Call(s, "_sort_update_arrow")

_sort_reverse_changed(s) ==
  IF s.d.manual_sort_set THEN s ELSE _sort_update_query(_sort_update_arrow(s), TRUE)

_sort_combobox_changed(s) ==
  IF s.d.manual_sort_set THEN s ELSE _sort_update_query(s, TRUE)

\* the combobox takes the entry pos and emits value-changed
SetSortCombo(s, pos) == _sort_combobox_changed([s EXCEPT !.d.sort.sort = SortActive(pos)])

\* the toggle button emits toggled when its state changed
SortToggled(s, changed) == IF changed THEN _sort_reverse_changed(s) ELSE s

SetSortDirection(s, active) ==
  SortToggled([s EXCEPT !.d.sort.direction = active], s.d.sort.direction # active)

\* the flag left as it is
SortManualKept(s, set) == s

\* d->manual_sort_set = set
SortManual(s, set) == [s EXCEPT !.d.manual_sort_set = set]

_proxy_set_sort(s, sort, asc) ==
  _sort_update_query(
    SortManual(_sort_update_arrow(SetSortDirection(SetSortCombo(SortManual(s, TRUE), sort),
                                                   asc)),
               FALSE),
    FALSE)

\* the position of the last '.' of fn at or before pos, 0 when there is none
RECURSIVE LastDot(_, _)
LastDot(fn, pos) ==
  IF pos = 0 THEN 0
  ELSE IF CharAt(fn, pos) = "." THEN pos
  ELSE LastDot(fn, pos - 1)

\* the part of fn from the position dot on, NULL when dot is 0
StrFrom(fn, dot) == IF dot = 0 THEN NULL ELSE <<SubSeq(fn, dot, Len(fn))>>

\* gchar *ext = g_strrstr(fn, ".")
g_strrstr(fn) == StrFrom(fn, LastDot(fn, Len(fn)))

\* size_t arithmetic: strlen(fn) - strlen(ext) + 1 wraps when it is below 0
SizeOf(n) == IF n < 0 THEN INT_MAX ELSE n

\* g_snprintf(name, MIN(strlen(fn) - strlen(ext) + 1, sizeof(name)), "%s", fn),
\* extlen being what strlen(ext) gave
FilenameName(fn, extlen) ==
  g_strlcpy(fn, IF SizeOf((Len(fn) - extlen) + 1) < 1024
                THEN SizeOf((Len(fn) - extlen) + 1) ELSE 1024)

\* the first entry of the list model from k on whose path is text, 0 when none is
RECURSIVE TreeFind(_, _, _)
TreeFind(model, text, k) ==
  IF k > Len(model) THEN 0
  ELSE IF StrEq(model[k].path, text) THEN k
  ELSE TreeFind(model, text, k + 1)

\* the entry found at k takes the count, or a new entry is appended
TreeCountAt(model, k, text, count) ==
  IF k # 0 THEN [model EXCEPT ![k].count = @ + MAX(count, 1)]
  ELSE Append(model, [path |-> text, count |-> count])

TreeCount(model, text, count) == TreeCountAt(model, TreeFind(model, text, 1), text, count)

\* the lists and counters before the first row
EmptyTree ==
  [name_model |-> <<>>, ext_model |-> <<>>,
   nb_raw |-> 0, nb_not_raw |-> 0, nb_ldr |-> 0, nb_hdr |-> 0]

\* a row with the name name and the extension ext goes into both lists
TreeRow(tree, row, name, ext) ==
  [tree EXCEPT !.name_model = TreeCount(@, <<name>>, row.count),
               !.ext_model = TreeCount(@, ext, row.count),
               !.nb_raw = IF "DT_IMAGE_RAW" \in row.flags THEN @ + row.count ELSE @,
               !.nb_not_raw = IF "DT_IMAGE_RAW" \in row.flags THEN @ ELSE @ + row.count,
               !.nb_ldr = IF "DT_IMAGE_LDR" \in row.flags THEN @ + row.count ELSE @,
               !.nb_hdr = IF "DT_IMAGE_HDR" \in row.flags THEN @ + row.count ELSE @]

\* and we insert the predefined extensions
TreePredefined(tree) ==
  [tree EXCEPT !.ext_model =
     << [path |-> <<"RAW">>, count |-> tree.nb_raw],
        [path |-> <<"NOT RAW">>, count |-> tree.nb_not_raw],
        [path |-> <<"LDR">>, count |-> tree.nb_ldr],
        [path |-> <<"HDR">>, count |-> tree.nb_hdr],
        [path |-> <<"">>, count |-> 0] >> \o @]

\* the machine record s together with the lists being built
WithTree(s, tree) ==
  [conf |-> s.conf, d |-> s.d, coll |-> s.coll, trace |-> s.trace, tree |-> tree]

\* the row is counted, strlen(ext) having given extlen
FilenameCount(r, row, ext, extlen) ==
  [r EXCEPT !.tree = TreeRow(@, row, FilenameName(row.fn[1], extlen), ext)]

\* strlen(ext): for a file name without '.' ext is NULL and strlen reads through
\* it, which is undefined: the program aborts, or goes on with what strlen gave
\* (0 here)
FilenameRowExt(r, row, ext, ub) ==
  IF ext # NULL THEN FilenameCount(r, row, ext, Len(ext[1]))
  ELSE IF ub = "aborts" THEN Did(Did(r, "undefined", "strlen(NULL)"), "abort", "")
  ELSE FilenameCount(Did(r, "undefined", "strlen(NULL)"), row, ext, 0)

\* if(fn == NULL) continue
FilenameRow(r, row, ub) ==
  IF row.fn = NULL THEN r ELSE FilenameRowExt(r, row, g_strrstr(row.fn[1]), ub)

\* while(sqlite3_step(stmt) == SQLITE_ROW)
RECURSIVE FilenameRows(_, _, _, _)
FilenameRows(r, rows, k, ub) ==
  Then(r, IF k > Len(rows) \/ Aborted(r.trace) THEN r
          ELSE FilenameRows(FilenameRow(r, rows[k], ub), rows, k + 1, ub))

\* the predefined extensions, when the loop came to its end
FilenameEnd(r) == IF Aborted(r.trace) THEN r ELSE [r EXCEPT !.tree = TreePredefined(@)]

\* rows is what the query on main.images gives
_filename_tree_update(s, rows, ub) == FilenameEnd(FilenameRows(WithTree(s, EmptyTree), rows, 1, ub))

\* int nb[7] = { 0 }
RatingNbZero == [k \in 0 .. 6 |-> 0]

\* nb[k] += count, on an array of 7 entries
RatingNbAdd(r, k, count) ==
  IF k \in 0 .. 6 THEN [r EXCEPT !.nb[k] = @ + count]
  ELSE Did(r, "undefined", "nb[" \o ToString(k) \o "]")

\* if(val < 6 && val >= -1) nb[val + 1] += count
RatingRow(r, row) ==
  IF row.val < 6 /\ row.val >= -1 THEN RatingNbAdd(r, row.val + 1, row.count) ELSE r

\* while(sqlite3_step(stmt) == SQLITE_ROW)
RECURSIVE RatingRows(_, _, _)
RatingRows(r, rows, k) ==
  Then(r, IF k > Len(rows) THEN r ELSE RatingRows(RatingRow(r, rows[k]), rows, k + 1))

\* dtgtk_range_select_add_range_block(range, min_r, max_r, bounds, txt, nb)
RangeBlock(min_r, max_r, bounds, txt, nb) ==
  [min_r |-> min_r, max_r |-> max_r, bounds |-> bounds, txt |-> txt, nb |-> nb]

\* the predefined selections with their counts
RatingBlocks(nb) ==
  << RangeBlock(1, 1, {"DT_RANGE_BOUND_MIN", "DT_RANGE_BOUND_MAX"}, "all images",
                nb[0] + nb[1] + nb[2] + nb[3] + nb[4] + nb[5] + nb[6]),
     RangeBlock(0, 1, {"DT_RANGE_BOUND_MAX"}, "all except rejected",
                nb[1] + nb[2] + nb[3] + nb[4] + nb[5] + nb[6]),
     RangeBlock(-1, -1, {"DT_RANGE_BOUND_FIXED"}, "rejected only", nb[0]),
     RangeBlock(0, 0, {"DT_RANGE_BOUND_FIXED"}, "unstared only", nb[1]),
     RangeBlock(1, 5, {"DT_RANGE_BOUND_MAX"}, "1 star", nb[2]),
     RangeBlock(2, 5, {"DT_RANGE_BOUND_MAX"}, "2 stars", nb[3]),
     RangeBlock(3, 5, {"DT_RANGE_BOUND_MAX"}, "3 stars", nb[4]),
     RangeBlock(4, 5, {"DT_RANGE_BOUND_MAX"}, "4 stars", nb[5]),
     RangeBlock(5, 5, {"DT_RANGE_BOUND_MAX"}, "5 stars", nb[6]) >>

\* the values a selection of the range widget selects (dtgtk/range.h): a bound
\* named in bounds is open, DT_RANGE_BOUND_FIXED leaves both in place
RangeSelects(block, val) ==
  /\ ("DT_RANGE_BOUND_MIN" \in block.bounds \/ val >= block.min_r)
  /\ ("DT_RANGE_BOUND_MAX" \in block.bounds \/ val <= block.max_r)

\* the machine record s together with the count array and the selections
WithBlocks(s, nb, blocks) ==
  [conf |-> s.conf, d |-> s.d, coll |-> s.coll, trace |-> s.trace,
   nb |-> nb, blocks |-> blocks]

\* the selections are added once the rows are counted; rule->w_specific = special
RatingEnd(r, i) ==
  [r EXCEPT !.blocks = RatingBlocks(r.nb), !.d.rule[i].w_specific = TRUE]

\* rows is what the query on main.images gives
_rating_widget_init(s, i, rows) ==
  RatingEnd(RatingRows(WithBlocks(s, RatingNbZero, <<>>), rows, 1), i)

\* gui_init on the configuration c and the collection cl
gui_init(c, cl) ==
  _filters_gui_update(
    [conf |-> c,
     d |-> [nb_rules |-> 0,
            rule |-> Stored([i \in 0 .. (MAX_RULES - 1) |-> RuleInit(i)]),
            params |-> ZeroParams,
            manual_sort_set |-> FALSE,
            sort |-> [sort |-> cl.sort, direction |-> cl.descending],
            last_where_ext |-> cl.where_ext],
     coll |-> cl,
     trace |-> <<>>])

-----------------------------------------------------------------------------
(* Inputs *)

\* the properties the popup of _rule_show_popup offers
Props == {DT_COLLECTION_PROP_FILENAME, DT_COLLECTION_PROP_RATING}

\* values the user gives a rule
Texts == {"", ">=2"}

\* what the memory after a params block may hold
OobRules ==
  {ZeroRule, [item |-> DT_COLLECTION_PROP_RATING, mode |-> 1, off |-> 1, string |-> "oob"]}

\* rule i of a rule-set saved earlier
SavedRule(i) ==
  [item |-> IF i % 2 = 0 THEN DT_COLLECTION_PROP_RATING ELSE DT_COLLECTION_PROP_FILENAME,
   mode |-> i % 3,
   off |-> IF i % 4 = 3 THEN 1 ELSE 0,
   string |-> IF i = 1 THEN "" ELSE "s" \o ToString(i)]

RuleKeys(i) == {Key("item", i), Key("mode", i), Key("off", i), Key("string", i)}

\* the configuration keys of rules 0 .. n-1, rule i being r[i]
RulesConf(n, r) ==
  Stored([k \in UNION {RuleKeys(i) : i \in 0 .. (n - 1)} |->
            LET i == CHOOSE j \in 0 .. (n - 1) : k \in RuleKeys(j)
            IN  IF k = Key("item", i) THEN r[i].item
                ELSE IF k = Key("mode", i) THEN r[i].mode
                ELSE IF k = Key("off", i) THEN r[i].off
                ELSE r[i].string])

\* the rules saved earlier, by index
SavedRules == [i \in 0 .. MaxParamRules |-> SavedRule(i)]

\* the configuration of a first start
FreshConf == KeyHistoryMax :> HistoryMax

\* a configuration the panel saved earlier: n rules, and the n-1 rules before the last
\* one was appended as the newest history entry
SavedConf(n) ==
  LET rules == RulesConf(n, SavedRules)
      before == ConfPut(ConfPut(rules, KeyNumRules, n - 1), KeyHistoryMax, HistoryMax)
  IN  ConfPut(ConfPut(ConfPut(rules, KeyNumRules, n), KeyHistoryMax, HistoryMax),
              Key("history", 0), dt_collection_serialize(before))

InitRules == {3, MAX_RULES}

InitConfs == {FreshConf} \cup {SavedConf(n) : n \in InitRules}

\* the extended where clauses the collection computes for the rule-sets it is given
WhereExts == {"1=1", "(flags & 7) >= 2"}

\* the collection at start, its query flags being f
StartColl(f) ==
  [query_flags |-> f, sort |-> 0, descending |-> FALSE, tagid |-> 0, where_ext |-> "1=1"]

InitColls == {StartColl(f) : f \in {"COLLECTION_QUERY_SIMPLE", "COLLECTION_QUERY_FULL"}}

\* a preset of init_presets
PresetBlock(item, string) ==
  [rules |-> 1,
   rule |-> Stored([i \in 0 .. (MAX_RULES - 1) |->
                      IF i = 0 THEN [item |-> item, mode |-> 0, off |-> 0, string |-> string]
                      ELSE ZeroRule])]

BlockRule(i) ==
  [item |-> IF i = 4 THEN DT_COLLECTION_PROP_RATING ELSE DT_COLLECTION_PROP_FILENAME,
   mode |-> (i + 1) % 3,
   off |-> i % 2,
   string |-> "p" \o ToString(i)]

\* a block whose rules field is n
PatternBlock(n) ==
  [rules |-> n,
   rule |-> Stored([i \in 0 .. (MAX_RULES - 1) |-> IF i < n THEN BlockRule(i) ELSE ZeroRule])]

ParamBlocks ==
  {PresetBlock(DT_COLLECTION_PROP_RATING, ">=2")}
  \cup {PatternBlock(n) : n \in {0, 4, MAX_RULES} \cup (MAX_RULES + 1) .. MaxParamRules}

-----------------------------------------------------------------------------
(* The state machine *)

Cur == [conf |-> conf, d |-> d, coll |-> coll, trace |-> <<>>]

Commit(s, name, arg, r) ==
  /\ conf' = s.conf
  /\ d' = s.d
  /\ coll' = s.coll
  /\ trace' = s.trace
  /\ op' = [name |-> name, arg |-> arg]
  /\ ret' = r
  /\ steps' = steps + 1

Ready == steps < MaxSteps /\ ~Aborted(trace)

\* the rules that have widgets the user can act on
Widgets == {i \in 0 .. (MAX_RULES - 1) : d.rule[i].w_main}

\* the rules the user edits: the first and the last one
Edited == {i \in Widgets : i = 0 \/ i + 1 = d.nb_rules}

\* the entries the popup of _event_history_show lists
HistoryShown ==
  {i \in 0 .. (dt_conf_get_int(conf, KeyHistoryMax) - 1) :
     \A j \in 0 .. i :
       LET line == dt_conf_get_string_const(conf, Key("history", j))
       IN  line # NULL /\ line[1] # ""}

\* the state gui_init leaves
Start(s) ==
  /\ conf = s.conf
  /\ d = s.d
  /\ coll = s.coll
  /\ trace = s.trace
  /\ op = [name |-> "gui_init", arg |-> <<>>]
  /\ ret = <<>>
  /\ steps = 0

Init == \E c \in InitConfs, cl \in InitColls : Start(gui_init(c, cl))

AppendRule ==
  /\ Ready
  /\ \E mode \in Props :
       Commit(_event_append_rule(Cur, mode), "_event_append_rule", <<mode>>, <<>>)

RuleClose ==
  /\ Ready
  /\ \E k \in Widgets :
       Commit(_event_rule_close(Cur, k), "_event_rule_close", <<k>>,
              _event_rule_close_ret(Cur, k))

OperatorChanged ==
  /\ Ready
  /\ \E i \in Edited, m \in 0 .. 2 :
       /\ m # d.rule[i].w_operator
       /\ Commit(SetOperator(Cur, i, m), "_event_rule_changed", <<i>>, <<>>)

OffToggled ==
  /\ Ready
  /\ \E i \in Edited :
       Commit(SetOff(Cur, i, ~d.rule[i].w_off), "_event_rule_changed", <<i>>, <<>>)

RuleValueChanged ==
  /\ Ready
  /\ \E i \in Edited, text \in Texts :
       Commit(ValueChanged(Cur, i, text), "_event_rule_changed", <<i>>, <<>>)

RuleChangeType ==
  /\ Ready
  /\ \E i \in Edited, mode \in Props :
       Commit(_event_rule_change_type(Cur, i, mode), "_event_rule_change_type",
              <<i, mode>>, <<>>)

\* memcpy(p, d->params, *size); return p
ReturnParams(s) == Commit(s, "get_params", <<>>, s.d.params)

GetParams ==
  /\ Ready
  /\ \E a \in IntDec(dt_conf_get_int(conf, KeyNumRules)) :
       ReturnParams(get_params(Cur, a))

\* set_params with a preset's block, or with the block get_params just returned
SetParams ==
  /\ Ready
  /\ \E p \in ParamBlocks \cup (IF op.name = "get_params" THEN {ret} ELSE {}) :
       \E oob \in [MAX_RULES .. (p.rules - 1) -> OobRules],
          a \in IntDec(p.rules) :
         Commit(set_params(Cur, p, oob, a), "set_params", <<p, oob>>, 0)

HistoryApply ==
  /\ Ready
  /\ \E hid \in HistoryShown :
       Commit(_event_history_apply(Cur, hid), "_event_history_apply", <<hid>>, <<>>)

GuiReset ==
  /\ Ready
  /\ Commit(gui_reset(Cur), "gui_reset", <<>>, <<>>)

ProxyUpdate ==
  /\ Ready
  /\ Commit(_filters_gui_update(Cur), "_filters_gui_update", <<>>, <<>>)

Next ==
  \/ AppendRule
  \/ RuleClose
  \/ OperatorChanged
  \/ OffToggled
  \/ RuleValueChanged
  \/ RuleChangeType
  \/ GetParams
  \/ SetParams
  \/ HistoryApply
  \/ GuiReset
  \/ ProxyUpdate

Spec == Init /\ [][Next]_vars

-----------------------------------------------------------------------------
(* The collection changed signal *)

\* the collection's clause became where_ext
WithWhere(s, where_ext) == [s EXCEPT !.coll.where_ext = where_ext]

\* DT_SIGNAL_COLLECTION_CHANGED reaches the panel after the collection computed
\* the clause where_ext, which may be the clause it had
CollectionUpdated ==
  /\ Ready
  /\ \E where_ext \in WhereExts, ub \in UndefinedOutcomes :
       Commit(_dt_collection_updated(WithWhere(Cur, where_ext), ub),
              "_dt_collection_updated", <<where_ext>>, <<>>)

NextUpdated ==
  \/ CollectionUpdated
  \/ AppendRule
  \/ RuleClose

SpecUpdated == Init /\ [][NextUpdated]_vars

-----------------------------------------------------------------------------
(* The sort widgets *)

\* the sort orders picked: file name, capture time, rating, shuffle
SortChoices == {0, 1, 6, 15}

\* the user picks an entry of the sort combobox
SortComboboxChanged ==
  /\ Ready
  /\ \E pos \in SortChoices :
       Commit(SetSortCombo(Cur, pos), "_sort_combobox_changed", <<pos>>, <<>>)

\* the user clicks the direction button
SortReverseChanged ==
  /\ Ready
  /\ Commit(SetSortDirection(Cur, ~d.sort.direction), "_sort_reverse_changed", <<>>, <<>>)

\* the filter bar hands its sort to the panel
ProxySetSort ==
  /\ Ready
  /\ \E sort \in SortChoices, asc \in BOOLEAN :
       Commit(_proxy_set_sort(Cur, sort, asc), "_proxy_set_sort", <<sort, asc>>, <<>>)

NextSort ==
  \/ SortComboboxChanged
  \/ SortReverseChanged
  \/ ProxySetSort

SpecSort == Init /\ [][NextSort]_vars

-----------------------------------------------------------------------------
(* The rating selector *)

\* CASE WHEN (flags & 8) == 8 THEN -1 ELSE (flags & 7) END AS rating
RatingValues == -1 .. 7

\* SELECT ... AS rating, COUNT(*) AS count ... GROUP BY rating ORDER BY rating:
\* one row for each rating that count[val] > 0 images have, from the rating val on
RECURSIVE RatingQuery(_, _)
RatingQuery(count, val) ==
  IF val \notin RatingValues THEN <<>>
  ELSE (IF count[val] > 0 THEN <<[val |-> val, count |-> count[val]]>> ELSE <<>>)
       \o RatingQuery(count, val + 1)

\* one rule on the rating with an empty value
RatingConf ==
  ConfPut(RulesConf(1, [i \in {0} |-> [item |-> DT_COLLECTION_PROP_RATING,
                                        mode |-> 0, off |-> 0, string |-> ""]]),
          KeyNumRules, 1)

InitRating == Start(gui_init(RatingConf, StartColl("COLLECTION_QUERY_FULL")))

\* the handler's result is the selections it added
RatingCommit(r, i, rows) == Commit(r, "_rating_widget_init", <<i, rows>>, r.blocks)

\* the special widgets of a rule on the rating are built from the database
RatingWidgetInit ==
  /\ Ready
  /\ \E i \in Widgets, count \in [RatingValues -> 0 .. MaxRated] :
       /\ d.rule[i].prop = DT_COLLECTION_PROP_RATING
       /\ RatingCommit(_rating_widget_init(Cur, i, RatingQuery(count, -1)), i,
                       RatingQuery(count, -1))

NextRating ==
  \/ RatingWidgetInit

SpecRating == InitRating /\ [][NextRating]_vars

-----------------------------------------------------------------------------
(* The params block on arbitrary configurations *)

\* values the num_rules key may hold in a configuration file
NumRulesValues == {INT_MIN, -1, 0, 1, MAX_RULES, MAX_RULES + 1, INT_MAX}

\* rule i of a configuration file changed by hand: numbers wider than 16 bits
EditedRule(i) ==
  [item |-> 65536 + DT_COLLECTION_PROP_RATING,
   mode |-> 65536 * i + 1,
   off |-> 65535,
   string |-> "e" \o ToString(i)]

\* the rule keys of c, without the string keys of the odd rules
OddStringsAbsent(c) ==
  Stored([k \in DOMAIN c \ {Key("string", i) : i \in {j \in 0 .. MaxParamRules : j % 2 = 1}} |->
            c[k]])

ParamBases ==
  {FreshConf,
   ConfPut(RulesConf(MaxParamRules, SavedRules), KeyHistoryMax, HistoryMax),
   ConfPut(OddStringsAbsent(RulesConf(MaxParamRules, [i \in 0 .. MaxParamRules |-> EditedRule(i)])), KeyHistoryMax, HistoryMax)}

\* base with the num_rules key absent (nr = NULL) or holding nr[1]
WithNumRules(base, nr) == IF nr = NULL THEN base ELSE ConfPut(base, KeyNumRules, nr[1])

ParamConfs ==
  {WithNumRules(base, nr) : base \in ParamBases, nr \in {NULL} \cup {<<n>> : n \in NumRulesValues}}

InitParams ==
  \E c \in ParamConfs :
    Start(gui_init(c, StartColl("COLLECTION_QUERY_FULL")))

NextParams ==
  \/ GetParams
  \/ SetParams

SpecParams == InitParams /\ [][NextParams]_vars

-----------------------------------------------------------------------------
(* The history, from an empty one *)

\* one rule on the file name with an empty value, history_max being h, no history
HistoryConf(h) ==
  ConfPut(ConfPut(RulesConf(1, [i \in {0} |-> [item |-> DT_COLLECTION_PROP_FILENAME,
                                                mode |-> 0, off |-> 0, string |-> ""]]),
                  KeyNumRules, 1),
          KeyHistoryMax, h)

InitHistory ==
  \E h \in 1 .. HistoryMax :
    Start(gui_init(HistoryConf(h), StartColl("COLLECTION_QUERY_FULL")))

Editing == steps < MaxEdits

\* the user picks another operator for rule 0
EditOperator ==
  /\ Editing
  /\ \E m \in 0 .. 2 :
       /\ m # d.rule[0].w_operator
       /\ Commit(SetOperator(Cur, 0, m), "_event_rule_changed", <<0>>, <<>>)

\* the user switches rule 0 off or on
EditOff ==
  /\ Editing
  /\ Commit(SetOff(Cur, 0, ~d.rule[0].w_off), "_event_rule_changed", <<0>>, <<>>)

\* the user confirms a value for rule 0, which may be the value it has
EditValue ==
  /\ Editing
  /\ \E text \in Texts :
       Commit(ValueChanged(Cur, 0, text), "_event_rule_changed", <<0>>, <<>>)

\* the user picks an entry of the history popup
EditHistoryApply ==
  /\ Editing
  /\ \E hid \in HistoryShown :
       Commit(_event_history_apply(Cur, hid), "_event_history_apply", <<hid>>, <<>>)

NextHistory ==
  \/ EditOperator
  \/ EditOff
  \/ EditValue
  \/ EditHistoryApply

SpecHistory == InitHistory /\ [][NextHistory]_vars

-----------------------------------------------------------------------------
(* The file name lists *)

\* the file names of the database in the order of the query, a NULL one first, with
\* the flags of their images
Files ==
  << [fn |-> NULL, flags |-> {}],
     [fn |-> <<"README">>, flags |-> {"DT_IMAGE_LDR"}],
     [fn |-> <<"a.jpg">>, flags |-> {"DT_IMAGE_LDR"}],
     [fn |-> <<"a.nef">>, flags |-> {"DT_IMAGE_RAW"}],
     [fn |-> <<"b.jpg">>, flags |-> {"DT_IMAGE_LDR", "DT_IMAGE_HDR"}] >>

\* SELECT filename, COUNT(*) AS count, flags ... GROUP BY filename ORDER BY filename:
\* one row for each file name that count[k] > 0 images have, from file k on
RECURSIVE QueryRows(_, _)
QueryRows(count, k) ==
  IF k > Len(Files) THEN <<>>
  ELSE (IF count[k] > 0
        THEN <<[fn |-> Files[k].fn, count |-> count[k], flags |-> Files[k].flags]>>
        ELSE <<>>)
       \o QueryRows(count, k + 1)

\* the rules whose special widgets are the file name lists
FilenameRules ==
  {i \in Widgets : d.rule[i].prop = DT_COLLECTION_PROP_FILENAME /\ d.rule[i].w_specific}

\* the handler's result is the lists it built
FilenameCommit(r, rows) == Commit(r, "_filename_tree_update", <<rows>>, r.tree)

\* the lists of a file name rule are filled from the database
FilenameTreeUpdate ==
  /\ Ready
  /\ FilenameRules # {}
  /\ \E count \in [1 .. Len(Files) -> 0 .. MaxCount], ub \in UndefinedOutcomes :
       FilenameCommit(_filename_tree_update(Cur, QueryRows(count, 1), ub),
                      QueryRows(count, 1))

NextFilename ==
  \/ FilenameTreeUpdate

SpecFilename == InitHistory /\ [][NextFilename]_vars

-----------------------------------------------------------------------------
(* Properties *)

Range(seq) == {seq[j] : j \in 1 .. Len(seq)}

\* rule i as the configuration c holds it; string is NULL when its key is absent
RuleOf(c, i) ==
  [item |-> dt_conf_get_int(c, Key("item", i)),
   mode |-> dt_conf_get_int(c, Key("mode", i)),
   off |-> dt_conf_get_int(c, Key("off", i)),
   string |-> dt_conf_get_string_const(c, Key("string", i))]

\* the record RuleOf gives for a rule r whose string key exists
Persisted(r) == [item |-> r.item, mode |-> r.mode, off |-> r.off, string |-> <<r.string>>]

LogTooManyRules == <<"call", "dt_control_log(You can't have more than 10 rules)">>

UpdateQuery == <<"call", "dt_collection_update_query(NEW_QUERY)">>

\* C1: after gui_init and after every panel operation, the in-memory rule count
\* nb_rules is between 0 and MAX_RULES inclusive.
NbRulesInRange == d.nb_rules \in 0 .. MAX_RULES

\* set_params stored a count above MAX_RULES and the panel shows MAX_RULES rules
NbRulesClampedReached ==
  /\ op.name = "set_params"
  /\ dt_conf_get_int(conf, KeyNumRules) > MAX_RULES
  /\ d.nb_rules = MAX_RULES

\* C2: set_params reads and writes per-rule entries only for the indices
\* 0 .. MAX_RULES-1, and the num_rules it stores is at most MAX_RULES.
SetParamsAtMostMaxRules ==
  op.name = "set_params" =>
    /\ DOMAIN op.arg[2] = {}
    /\ \A e \in Range(trace) :
         e[1] = "conf_set" =>
           e[2] \in {KeyNumRules} \cup UNION {RuleKeys(i) : i \in 0 .. (MAX_RULES - 1)}
    /\ dt_conf_get_int(conf, KeyNumRules) <= MAX_RULES

\* C3: removing rule k of n rules (in-memory count equal to the configured count)
\* makes the configured count n-1, keeps rules 0..k-1 and gives each rule i with
\* k <= i < n-1 the item/mode/off/string rule i+1 had.
RuleCloseShiftsRules ==
  [][(op'.name = "_event_rule_close" /\ d.nb_rules = dt_conf_get_int(conf, KeyNumRules)) =>
       LET k == op'.arg[1]
           n == d.nb_rules
       IN  /\ k \in 0 .. (n - 1)
           /\ dt_conf_get_int(conf', KeyNumRules) = n - 1
           /\ \A i \in 0 .. (k - 1) : RuleOf(conf', i) = RuleOf(conf, i)
           /\ \A i \in k .. (n - 2) : RuleOf(conf', i) = RuleOf(conf, i + 1)]_vars

\* the middle rule of three saved rules was removed
RuleCloseMiddleReached ==
  /\ op.name = "_event_rule_close"
  /\ op.arg = <<1>>
  /\ dt_conf_get_int(conf, KeyNumRules) = 2
  /\ RuleOf(conf, 0) = Persisted(SavedRule(0))
  /\ RuleOf(conf, 1) = Persisted(SavedRule(2))

\* C4: appending a rule for property p at nb_rules = n < MAX_RULES stores rule n
\* with item p, mode AND, off 0 and an empty string, makes nb_rules and num_rules
\* n+1, adds one to nb_use_p and leaves rules 0..n-1 unchanged.
AppendStoresRule ==
  [][(op'.name = "_event_append_rule" /\ d.nb_rules < MAX_RULES) =>
       LET p == op'.arg[1]
           n == d.nb_rules
       IN  /\ p >= 0
           /\ RuleOf(conf', n) =
                [item |-> p, mode |-> DT_LIB_COLLECT_MODE_AND, off |-> 0, string |-> <<"">>]
           /\ d'.nb_rules = n + 1
           /\ dt_conf_get_int(conf', KeyNumRules) = n + 1
           /\ dt_conf_get_int(conf', Key("nb_use_", p))
                = dt_conf_get_int(conf, Key("nb_use_", p)) + 1
           /\ \A i \in 0 .. (n - 1) : RuleOf(conf', i) = RuleOf(conf, i)]_vars

\* a fourth rule, on the rating, was appended to three saved rules
AppendFourthReached ==
  /\ op.name = "_event_append_rule"
  /\ op.arg = <<DT_COLLECTION_PROP_RATING>>
  /\ d.nb_rules = 4
  /\ d.rule[3].w_main
  /\ RuleOf(conf, 3) = [item |-> DT_COLLECTION_PROP_RATING, mode |-> DT_LIB_COLLECT_MODE_AND,
                        off |-> 0, string |-> <<"">>]
  /\ RuleOf(conf, 2) = Persisted(SavedRule(2))

\* C5: an append request at nb_rules = MAX_RULES only logs "You can't have more
\* than 10 rules": nb_rules, every configuration key and the rule widgets are
\* unchanged and no collection query update is issued.
AppendAtMaxRejected ==
  [][(op'.name = "_event_append_rule" /\ d.nb_rules = MAX_RULES) =>
       /\ trace' = <<LogTooManyRules>>
       /\ conf' = conf
       /\ d' = d
       /\ coll' = coll]_vars

\* an append request was refused on a panel of MAX_RULES rules
AppendRefusedReached ==
  /\ op.name = "_event_append_rule"
  /\ d.nb_rules = MAX_RULES
  /\ dt_conf_get_int(conf, KeyNumRules) = MAX_RULES
  /\ trace = <<LogTooManyRules>>

\* a persisted rule-set of 0 to MAX_RULES rules: item/mode/off in 0..65535 and
\* strings shorter than PARAM_STRING_SIZE
PersistedRuleSet(c) ==
  /\ KeyNumRules \in DOMAIN c
  /\ c[KeyNumRules] \in 0 .. MAX_RULES
  /\ \A i \in 0 .. (c[KeyNumRules] - 1) :
       /\ RuleKeys(i) \subseteq DOMAIN c
       /\ {c[Key("item", i)], c[Key("mode", i)], c[Key("off", i)]} \subseteq 0 .. 65535
       /\ Len(c[Key("string", i)]) < PARAM_STRING_SIZE

\* C6: for a persisted rule-set of 0 to MAX_RULES rules, set_params with the block
\* get_params returned leaves num_rules and every active rule's item, mode, off
\* and string as they were.
ParamsRoundTrip ==
  [][(/\ op.name = "get_params"
      /\ op'.name = "set_params"
      /\ op'.arg[1] = ret
      /\ PersistedRuleSet(conf)) =>
       /\ dt_conf_get_int(conf', KeyNumRules) = dt_conf_get_int(conf, KeyNumRules)
       /\ \A i \in 0 .. (dt_conf_get_int(conf, KeyNumRules) - 1) :
            RuleOf(conf', i) = RuleOf(conf, i)]_vars

\* C7: whatever num_rules holds and whether or not a rule's string key exists, the
\* params block built from the configuration has rules in 1..MAX_RULES, holds the
\* configuration's values at the indices 0..rules-1 with the empty string for an
\* absent string key, is all-zero from index rules on, and has no entry outside
\* 0..MAX_RULES-1.
UpdateParamsDefaults ==
  op.name \in {"get_params", "set_params"} =>
    LET p == d.params
    IN  /\ p.rules \in 1 .. MAX_RULES
        /\ DOMAIN p.rule = 0 .. (MAX_RULES - 1)
        /\ \A i \in 0 .. (MAX_RULES - 1) :
             p.rule[i] =
               IF i < p.rules
               THEN [item |-> RuleOf(conf, i).item % 65536,
                     mode |-> RuleOf(conf, i).mode % 65536,
                     off |-> RuleOf(conf, i).off % 65536,
                     string |-> IF Key("string", i) \in DOMAIN conf
                                THEN conf[Key("string", i)] ELSE ""]
               ELSE ZeroRule

\* get_params ran on a num_rules above MAX_RULES with rule 1's string key absent
UpdateParamsDefaultsReached ==
  /\ op.name = "get_params"
  /\ dt_conf_get_int(conf, KeyNumRules) > MAX_RULES
  /\ Key("string", 1) \notin DOMAIN conf
  /\ Key("string", 2) \in DOMAIN conf
  /\ ret.rules = MAX_RULES
  /\ ret.rule[1].string = ""
  /\ ret.rule[2].string = "e2"

\* C8: set_params calls dt_view_filter_reset if and only if one of the rules
\* 0..rules-1 of the block it applies has the rating as item; it returns 0.
SetParamsResetsRatingFilter ==
  op.name = "set_params" =>
    /\ (<<"call", "dt_view_filter_reset">> \in Range(trace))
         <=> (\E i \in 0 .. (op.arg[1].rules - 1) :
                ParamsRule(op.arg[1], op.arg[2], i).item = DT_COLLECTION_PROP_RATING)
    /\ ret = 0

\* set_params applied a block whose only rating rule is rule 4 and reset the filter
SetParamsResetReached ==
  /\ op.name = "set_params"
  /\ op.arg[1] = PatternBlock(MAX_RULES)
  /\ <<"call", "dt_view_filter_reset">> \in Range(trace)
  /\ ret = 0

\* C9: after every operation nb_rules equals the configured num_rules clamped to
\* 0..MAX_RULES, and rule slot i has a main widget if and only if i < nb_rules.
RuleArrayMirrorsConf ==
  /\ d.nb_rules = CLAMP(dt_conf_get_int(conf, KeyNumRules), 0, MAX_RULES)
  /\ \A i \in 0 .. (MAX_RULES - 1) : d.rule[i].w_main <=> i < d.nb_rules

\* C10: gui_reset sets num_rules to 0, sets the query flags to COLLECTION_QUERY_FULL
\* and then issues one NEW_QUERY update; every other configuration key (per-rule
\* keys, history slots) and the sort setting are unchanged.
GuiResetEffect ==
  [][op'.name = "gui_reset" =>
       /\ KeyNumRules \in DOMAIN conf'
       /\ conf'[KeyNumRules] = 0
       /\ coll'.query_flags = "COLLECTION_QUERY_FULL"
       /\ trace' = << <<"conf_set", KeyNumRules>>,
                      <<"call", "dt_collection_set_query_flags(COLLECTION_QUERY_FULL)">>,
                      UpdateQuery >>
       /\ DOMAIN conf' = DOMAIN conf \cup {KeyNumRules}
       /\ \A k \in DOMAIN conf \ {KeyNumRules} : conf'[k] = conf[k]
       /\ coll'.sort = coll.sort
       /\ coll'.descending = coll.descending
       /\ d'.sort = d.sort]_vars

\* gui_reset ran on a panel of saved rules with a history, under simple query flags
GuiResetReached ==
  /\ op.name = "gui_reset"
  /\ steps = 1
  /\ conf[KeyNumRules] = 0
  /\ coll.query_flags = "COLLECTION_QUERY_FULL"
  /\ RuleOf(conf, 2) = Persisted(SavedRule(2))
  /\ Key("history", 0) \in DOMAIN conf

\* the positions of the configuration writes in a handler's trace
Writes(tr) == {j \in 1 .. Len(tr) : tr[j][1] = "conf_set"}

\* the positions of the collection query updates in a handler's trace
Queries(tr) == {j \in 1 .. Len(tr) : tr[j] = UpdateQuery}

\* the keys that hold the persisted rule-set
RuleSetKeys == {KeyNumRules} \cup UNION {RuleKeys(i) : i \in 0 .. MaxParamRules}

\* the handlers that change the persisted rule-set
RuleSetHandlers ==
  {"_event_append_rule", "_event_rule_close", "_event_rule_changed",
   "_event_rule_change_type", "set_params", "gui_reset"}

\* history slot i as the configuration c holds it
HistorySlot(c, i) == dt_conf_get_string(c, Key("history", i))

\* C11: every panel action (append, remove, rule edit, property change, set_params,
\* gui_reset) that writes a key of the persisted rule-set issues exactly one
\* dt_collection_update_query(NEW_QUERY), and issues it after all of its
\* configuration writes.
QueryAfterWrites ==
  (op.name \in RuleSetHandlers /\ \E j \in Writes(trace) : trace[j][2] \in RuleSetKeys) =>
    /\ Cardinality(Queries(trace)) = 1
    /\ \A j \in Writes(trace) : \A q \in Queries(trace) : j < q

\* a property change wrote the rule's keys and the history, then updated the query
QueryAfterWritesReached ==
  /\ op.name = "_event_rule_change_type"
  /\ <<"conf_set", Key("history", 0)>> \in Range(trace)
  /\ Len(trace) > 2
  /\ trace[Len(trace) - 1] = UpdateQuery

\* C12: after a rule edit handled by _conf_update_rule (operator change, on/off
\* toggle, value change, property change), history slot 0 holds the serialization
\* of the current rule-set.
EditSavesHistory ==
  (op.name \in {"_event_rule_changed", "_event_rule_change_type"} /\ Writes(trace) # {}) =>
    HistorySlot(conf, 0) = <<dt_collection_serialize(conf)>>

\* the value of the last of three saved rules was edited and the rule-set saved
\* in front of the entry the history held
EditSavesHistoryReached ==
  /\ op.name = "_event_rule_changed"
  /\ op.arg = <<2>>
  /\ RuleOf(conf, 2).string = <<">=2">>
  /\ HistorySlot(conf, 0) = <<dt_collection_serialize(conf)>>
  /\ HistorySlot(conf, 1) # NULL
  /\ HistorySlot(conf, 1) # HistorySlot(conf, 0)

\* C17: after appending a rule or removing a rule, history slot 0 holds the
\* serialization of the resulting rule-set, as it does after editing a rule.
AppendRemoveSavesHistory ==
  (op.name \in {"_event_append_rule", "_event_rule_close"} /\ Writes(trace) # {}) =>
    HistorySlot(conf, 0) = <<dt_collection_serialize(conf)>>

\* the text of a string pointer, NULL reading as the empty string
Text(str) == IF str = NULL THEN "" ELSE str[1]

\* the history of the configuration c: the texts of the slots 0 .. history_max-1
HistoryRow(c) ==
  [i \in 1 .. dt_conf_get_int(c, KeyHistoryMax) |-> Text(HistorySlot(c, i - 1))]

\* the keys history<i>, whatever i
IsHistoryKey(k) ==
  /\ k # KeyHistoryMax
  /\ Len(k) > Len(PREFIX) + 7
  /\ SubSeq(k, 1, Len(PREFIX) + 7) = PREFIX \o "history"

\* the positions of the writes of history slots in a handler's trace
HistoryWrites(tr) == {j \in Writes(tr) : IsHistoryKey(tr[j][2])}

\* the entries of the history row that differ from buf, in their order
Without(row, buf) == SelectSeq(row, LAMBDA e : e # buf)

\* the last handler was a rule edit that reached _conf_update_rule
Edit(name, tr) ==
  name \in {"_event_rule_changed", "_event_rule_change_type"} /\ Writes(tr) # {}

\* C13: starting from an empty history, with history_max >= 1, no two history
\* slots in 0 .. history_max-1 hold the same non-empty string.
HistoryNoDuplicate ==
  \A i \in 1 .. Len(HistoryRow(conf)) : \A j \in 1 .. Len(HistoryRow(conf)) :
    (i # j /\ HistoryRow(conf)[i] # "") => HistoryRow(conf)[i] # HistoryRow(conf)[j]

\* a rule-set saved earlier was saved again: its older entry was removed from a
\* history of three entries
HistoryDuplicateRemovedReached ==
  /\ Edit(op.name, trace)
  /\ Len(HistoryRow(conf)) = 3
  /\ \A i \in 1 .. 3 : HistoryRow(conf)[i] # ""
  /\ Cardinality(HistoryWrites(trace)) > 3

HistorySaveSameIsNoOp ==
  [][(Edit(op'.name, trace') /\ HistorySlot(conf, 0) = <<dt_collection_serialize(conf')>>) =>
       /\ HistoryWrites(trace') = {}
       /\ \A k \in DOMAIN conf \cup DOMAIN conf' :
            IsHistoryKey(k) =>
              dt_conf_get_string(conf', k) = dt_conf_get_string(conf, k)]_vars

\* the value a rule already has was confirmed again: its keys were written, the
\* history was not
HistorySaveSameReached ==
  /\ Edit(op.name, trace)
  /\ steps > 1
  /\ HistoryWrites(trace) = {}
  /\ HistorySlot(conf, 0) = <<dt_collection_serialize(conf)>>

\* C16: starting from an empty history, the non-empty entries occupy a prefix of
\* the slots 0 .. history_max-1, so the history popup, which stops at the first
\* empty slot, lists every stored entry.
HistoryIsPrefix ==
  /\ \A i \in 1 .. Len(HistoryRow(conf)) :
       HistoryRow(conf)[i] # "" => \A j \in 1 .. i : HistoryRow(conf)[j] # ""
  /\ HistoryShown = {i \in 0 .. (Len(HistoryRow(conf)) - 1) : HistoryRow(conf)[i + 1] # ""}

\* the older of two entries was saved again: the history still holds two entries,
\* in the slots 0 and 1, and the popup lists both
HistoryIsPrefixReached ==
  /\ Edit(op.name, trace)
  /\ Len(HistoryRow(conf)) = 3
  /\ HistoryRow(conf)[3] = ""
  /\ HistoryShown = {0, 1}
  /\ Cardinality(HistoryWrites(trace)) > 3

\* the positions of the rule refreshes in a handler's trace
Refreshes(tr) ==
  {j \in 1 .. Len(tr) :
     tr[j][2] \in {"_widget_update(" \o ToString(i) \o ")" : i \in 0 .. MAX_RULES}}

\* C18: after _dt_collection_updated returns, last_where_ext equals the
\* collection's extended where clause; the rule widgets are refreshed when that
\* clause differs from the one cached before, and not at all when it is equal.
UpdatedCachesWhere ==
  [][op'.name = "_dt_collection_updated" =>
       /\ ~Aborted(trace') => d'.last_where_ext = coll'.where_ext
       /\ Refreshes(trace') # {} <=> coll'.where_ext # d.last_where_ext
       /\ coll'.where_ext = d.last_where_ext => (trace' = <<>> /\ d' = d)]_vars

\* the clause changed on a panel of three rules: the clause was cached and the
\* rules 0 to 2 were refreshed
UpdatedCachesWhereReached ==
  /\ op.name = "_dt_collection_updated"
  /\ d.nb_rules = 3
  /\ d.last_where_ext = "(flags & 7) >= 2"
  /\ coll.where_ext = d.last_where_ext
  /\ \A i \in 0 .. 2 : <<"call", "_widget_update(" \o ToString(i) \o ")">> \in Range(trace)

\* the positions of the call what in a handler's trace
Calls(tr, what) == {j \in 1 .. Len(tr) : tr[j] = <<"call", what>>}

\* C19: _proxy_set_sort sets the sort widgets under manual_sort_set, so that
\* _sort_combobox_changed and _sort_reverse_changed do nothing, then makes one sort
\* query update without dt_view_filter_update_sort; a sort change made by the user
\* calls dt_view_filter_update_sort, then dt_collection_set_sort, then makes one
\* RELOAD update of the collection.
SortSyncNoLoop ==
  /\ op.name = "_proxy_set_sort" =>
       /\ Calls(trace, "dt_view_filter_update_sort") = {}
       /\ Cardinality(Calls(trace, "dt_collection_set_sort")) = 1
       /\ Calls(trace, "dt_collection_update_query(RELOAD)") = {Len(trace)}
       /\ ~d.manual_sort_set
       /\ d.sort = [sort |-> op.arg[1], direction |-> op.arg[2]]
       /\ coll.sort = SortData(op.arg[1])
       /\ coll.descending = op.arg[2]
  /\ op.name \in {"_sort_combobox_changed", "_sort_reverse_changed"} =>
       /\ Cardinality(Calls(trace, "dt_view_filter_update_sort")) = 1
       /\ Cardinality(Calls(trace, "dt_collection_set_sort")) = 1
       /\ Calls(trace, "dt_collection_update_query(RELOAD)") = {Len(trace)}
       /\ \A f \in Calls(trace, "dt_view_filter_update_sort") :
            \A c \in Calls(trace, "dt_collection_set_sort") : f < c /\ c < Len(trace)

\* the filter bar handed over the rating, descending, while the panel showed the
\* file name, ascending: both widgets changed and one update was made
SortSyncNoLoopReached ==
  /\ op.name = "_proxy_set_sort"
  /\ op.arg = <<6, TRUE>>
  /\ steps = 1
  /\ coll.sort = 6
  /\ coll.descending
  /\ Calls(trace, "dt_collection_update_query(RELOAD)") = {Len(trace)}

\* the paths of the entries of a list model
Paths(model) == {model[k].path : k \in 1 .. Len(model)}

\* C20: when the file name lists are built, a row whose file name is NULL is
\* skipped, a row whose file name has no '.' is handled without reading through a
\* null extension pointer, and every row with a file name is added to or counted
\* in both the name list and the extension list.
FilenameRowsHandled ==
  op.name = "_filename_tree_update" =>
    /\ \A e \in Range(trace) : e[1] \notin {"undefined", "abort"}
    /\ NULL \notin Paths(ret.name_model)
    /\ \A row \in Range(op.arg[1]) :
         row.fn # NULL =>
           /\ \E n \in Paths(ret.name_model) :
                n # NULL /\ SubSeq(row.fn[1], 1, Len(n[1])) = n[1]
           /\ g_strrstr(row.fn[1]) \in Paths(ret.ext_model)

\* the number of images of the rows from k on whose rating is one of -1 .. 5 and
\* is selected by block
RECURSIVE ImagesIn(_, _, _)
ImagesIn(rows, k, block) ==
  IF k > Len(rows) THEN 0
  ELSE (IF rows[k].val \in -1 .. 5 /\ RangeSelects(block, rows[k].val)
        THEN rows[k].count ELSE 0)
       + ImagesIn(rows, k + 1, block)

\* C21: when the rating selector is built, the count of each predefined selection
\* is the number of images whose rating (-1 .. 5) lies in the range the selection
\* selects, whatever the ratings in the database; ratings outside -1 .. 5 are left
\* out and the array of 7 counts is not indexed outside 0 .. 6.
RatingCountsMatch ==
  op.name = "_rating_widget_init" =>
    /\ \A e \in Range(trace) : e[1] # "undefined"
    /\ \A b \in 1 .. Len(ret) : ret[b].nb = ImagesIn(op.arg[2], 1, ret[b])
====
